---- MODULE Spec2Model ----
(***************************************************************************)
(* Model of the traffic simulation engine of MOD_3_Q1.py: the Roads, the   *)
(* two assignment policies, the vehicle and generator processes, and the   *)
(* outer loop of run_simulation_with_visualization driving the simpy       *)
(* event queue one env.step() per iteration.                               *)
(***************************************************************************)
EXTENDS Integers, Sequences, FiniteSets

\* ---------------------------------------------------------------- bounds
MaxHorizon == 2      \* largest time_window tried
MaxVehicles == 3     \* largest number of vehicles the Poisson draws of one run add up to
MaxCap == 3          \* largest Road capacity tried
MaxGenVehicles == 2  \* largest number of vehicles when the generator is run on its own
MaxLoad == 6         \* largest load of a Road when a policy is called on its own

\* the Road capacities tried: the smallest one and the largest one
Capacities == {1, MaxCap}

\* the base arrival rates tried when the generator is run on its own: 1
\* halves to 0, 3 halves to 1
Rates == {1, 3}

\* the peak windows tried when the generator is run on its own: every
\* window start <= end inside the horizon
PeakWindows == {w \in (0..MaxHorizon - 1) \X (0..MaxHorizon - 1) : w[1] <= w[2]}

\* priority is never read by the engine; the specifications of the whole
\* engine draw it from this sample, the generator on its own from Priorities
SamplePriorities == {1}

\* ------------------------------------------------------ program constants
Weights == {1, 2, 3}         \* np.random.choice([1, 2, 3])
Priorities == {1, 2, 3, 4, 5} \* np.random.choice([1, 2, 3, 4, 5])
DefaultPeak == <<8, 10>>     \* peak_hours=(8, 10)
DefaultRate == 20            \* vehicle_rate=20
Methods == {"1", "2"}        \* radio buttons: "1" Knapsack, "2" Balanced
NumRoads == 2                \* start_simulation builds two Roads, Mandela and Portmore
URGENT_AsNormal == 0 + 1     \* Initialize events at the priority of timeouts
URGENT == 0                  \* simpy priority of a process' Initialize event
NORMAL == 1                  \* simpy priority of timeouts and process ends
HoldTime_Two == 1 + 1        \* a timeout of two time units
HoldTime == 1                \* env.timeout(1)
Infinity == 1000000          \* env.peek() on an empty queue
GenProc == 0 - 1             \* names the generator process in an event; vehicles are named by id >= 0

VARIABLES
    method,        \* TrafficSimulator.method
    time_window,   \* TrafficSimulator.time_window
    peak_hours,    \* TrafficSimulator.peak_hours
    vehicle_rate,  \* TrafficSimulator.vehicle_rate
    roads,         \* the list of Road objects: capacity, current_load, history
    vehicles,      \* TrafficSimulator.vehicles: id, weight, priority, hour of creation
    vproc,         \* per vehicle: position of its vehicle_process and its assigned_road
    gen,           \* position of generate_random_traffic: pc and its locals hour and rate
    queue,         \* env._queue: the scheduled events
    eid,           \* env._eid: the counter that orders events of equal time and priority
    now,           \* env.now
    running,       \* the flag of the outer loop
    pc             \* position of run_simulation_with_visualization

vars == <<method, time_window, peak_hours, vehicle_rate, roads, vehicles, vproc, gen, queue, eid, now, running, pc>>

\* ------------------------------------------------------------------ Road
\* Road.__init__: current_load 0 and an empty history
Road(cap) == [capacity |-> cap, current_load |-> 0, history |-> <<>>]

\* r.current_load / r.capacity, kept as the exact fraction <<numerator, denominator>>
Ratio(r) == <<r.current_load, r.capacity>>

\* a < b for two fractions with positive denominators
RatioLess(a, b) == a[1] * b[2] < b[1] * a[2]

\* a > 1.0
RatioAboveOne(a) == a[1] > a[2]

\* --------------------------------------------------------------- policies
\* an assignment that adds no load
AddLoad_Forgets(rds, i, w) == rds

\* best_road.current_load += vehicle.weight / road.current_load += vehicle.weight
AddLoad(rds, i, w) == [rds EXCEPT ![i].current_load = @ + w]

\* min() scans the list from its second item and replaces the item it
\* holds only by one whose key is strictly smaller
RECURSIVE MinScan(_, _, _)
MinScan(rds, best, i) ==
    IF i > Len(rds) THEN best
    ELSE MinScan(rds, IF RatioLess(Ratio(rds[i]), Ratio(rds[best])) THEN i ELSE best, i + 1)

\* a scan that also replaces the item it holds by one of equal key
RECURSIVE MinScan_LastTie(_, _, _)
MinScan_LastTie(rds, best, i) ==
    IF i > Len(rds) THEN best
    ELSE MinScan_LastTie(rds, IF RatioLess(Ratio(rds[best]), Ratio(rds[i])) THEN best ELSE i, i + 1)

\* the last Road of the list with the smallest ratio
MinRoad_LastTie(rds) == MinScan_LastTie(rds, 1, 2)

\* min(roads, key=lambda r: r.current_load / r.capacity)
MinRoad(rds) == MinScan(rds, 1, 2)

\* the greedy choice with an admission test: no assignment when the best
\* Road has no room
optimize_traffic_flow_Checked(rds, v) ==
    LET best_road == MinRoad(rds)
    IN  IF rds[best_road].current_load + v.weight <= rds[best_road].capacity
        THEN [roads |-> AddLoad(rds, best_road, v.weight),
              assignments |-> [i \in {v.id} |-> best_road]]
        ELSE [roads |-> rds, assignments |-> [i \in {} |-> 0]]

\* optimize_traffic_flow(roads, [vehicle]): the Roads after the call and the
\* assignments dict (vehicle id -> Road, the Road named by its list index)
optimize_traffic_flow(rds, v) ==
    LET best_road == MinRoad(rds)
    IN  [roads |-> AddLoad(rds, best_road, v.weight),
         assignments |-> [i \in {v.id} |-> best_road]]

\* sorted(roads, key=ratio): Python's sort is stable, so Road j precedes
\* Road i when its ratio is smaller, or equal with j earlier in the list
SortsBefore(rds, j, i) ==
    \/ RatioLess(Ratio(rds[j]), Ratio(rds[i]))
    \/ (~RatioLess(Ratio(rds[i]), Ratio(rds[j])) /\ j < i)

\* the Roads in list order, not sorted
roads_sorted_ListOrder(rds) == [p \in 1..Len(rds) |-> p]

roads_sorted(rds) ==
    [p \in 1..Len(rds) |->
        CHOOSE i \in DOMAIN rds :
            Cardinality({j \in DOMAIN rds : SortsBefore(rds, j, i)}) = p - 1]

\* the capacity test without the vehicle's weight
Fits_IgnoresWeight(road, w) == road.current_load <= road.capacity

\* if road.current_load + vehicle.weight <= road.capacity
Fits(road, w) == road.current_load + w <= road.capacity

\* balance_traffic_flow(roads, [vehicle]): first fit over the sorted Roads;
\* the assignments dict stays empty when the scan finds no Road
balance_traffic_flow(rds, v) ==
    LET sorted == roads_sorted(rds)
        fit == {p \in 1..Len(sorted) : Fits(rds[sorted[p]], v.weight)}
    IN  IF fit = {}
        THEN [roads |-> rds, assignments |-> [i \in {} |-> 0]]
        ELSE LET p == CHOOSE x \in fit : \A y \in fit : x <= y
             IN  [roads |-> AddLoad(rds, sorted[p], v.weight),
                  assignments |-> [i \in {v.id} |-> sorted[p]]]

\* if self.method == "1": optimize_traffic_flow else: balance_traffic_flow
Policy(m, rds, v) ==
    IF m = "1" THEN optimize_traffic_flow(rds, v) ELSE balance_traffic_flow(rds, v)

\* -------------------------------------------------------- vehicle_process
\* vehicle_process up to its yield: the policy call, the lookup
\* assignments[vehicle.id] (KeyError when the id is missing, road = 0 here),
\* and the second addition assigned_road.current_load += vehicle.weight.
\* Both policies divide by every Road's capacity before they change
\* anything, so a capacity of 0 raises ZeroDivisionError (road = 0 as well)
VehicleArrive(m, rds, v) ==
    IF \E i \in DOMAIN rds : rds[i].capacity = 0
    THEN [roads |-> rds, road |-> 0]
    ELSE LET res == Policy(m, rds, v)
         IN  IF v.id \in DOMAIN res.assignments
             THEN [roads |-> AddLoad(res.roads, res.assignments[v.id], v.weight),
                   road |-> res.assignments[v.id]]
             ELSE [roads |-> res.roads, road |-> 0]

\* max(0, assigned_road.current_load - vehicle.weight)
Floor0(x) == IF x > 0 THEN x ELSE 0

\* the release without the history entry
VehicleRelease_NoHistory(rds, i, w) ==
    [rds EXCEPT ![i].current_load = Floor0(rds[i].current_load - w)]

\* the release with the history entry taken before the decrement
VehicleRelease_RatioBefore(rds, i, w) ==
    LET load == Floor0(rds[i].current_load - w)
    IN  [rds EXCEPT ![i].current_load = load,
                    ![i].history = Append(@, <<rds[i].current_load, rds[i].capacity>>)]

\* the release applied to the first Road of the list, whichever Road the
\* vehicle was assigned to
VehicleRelease_FirstRoad(rds, i, w) ==
    LET load == Floor0(rds[1].current_load - w)
    IN  [rds EXCEPT ![1].current_load = load,
                    ![1].history = Append(@, <<load, rds[1].capacity>>)]

\* vehicle_process after its yield: decrement floored at 0, then append the
\* new ratio to the Road's history
VehicleRelease(rds, i, w) ==
    LET load == Floor0(rds[i].current_load - w)
    IN  [rds EXCEPT ![i].current_load = load,
                    ![i].history = Append(@, <<load, rds[i].capacity>>)]

\* ------------------------------------------------------------ event queue
\* An event of env._queue: (time, priority, eid, event); kind and proc say
\* which callback its processing runs, ok is the event's _ok flag
Event(t, prio, id, kind, proc, ok) ==
    [time |-> t, prio |-> prio, eid |-> id, kind |-> kind, proc |-> proc, ok |-> ok]

\* the heap order with the newest event first among equal time and priority
EventBefore_Lifo(a, b) ==
    \/ a.time < b.time
    \/ a.time = b.time /\ a.prio < b.prio
    \/ a.time = b.time /\ a.prio = b.prio /\ a.eid > b.eid

\* the heap order without the priority: time, then eid
EventBefore_NoPriority(a, b) ==
    \/ a.time < b.time
    \/ a.time = b.time /\ a.eid < b.eid

\* heap order of env._queue: (time, priority, eid)
EventBefore(a, b) ==
    \/ a.time < b.time
    \/ a.time = b.time /\ a.prio < b.prio
    \/ a.time = b.time /\ a.prio = b.prio /\ a.eid < b.eid

\* heappop(env._queue)
NextEvent(q) == CHOOSE e \in q : \A f \in q : f = e \/ EventBefore(e, f)

\* env.peek(): time of the next event, Infinity when nothing is scheduled
Peek(q) == IF q = {} THEN Infinity ELSE NextEvent(q).time

\* the loop test with an exclusive horizon
LoopCond_Exclusive(run, q, tw) == run /\ Peek(q) < tw

\* the loop test without the running flag
LoopCond_IgnoresRunning(run, q, tw) == Peek(q) <= tw

\* while running and env.peek() <= time_window
LoopCond(run, q, tw) == run /\ Peek(q) <= tw

\* ------------------------------------------------------------------- Init
\* start_simulation / run_simulation_with_visualization up to the loop:
\* fresh Roads, a simulator without vehicles, and the generator process
\* created by env.process, whose Initialize event is the only one scheduled
Started ==
    /\ vehicles = <<>>
    /\ vproc = <<>>
    /\ gen = [pc |-> "start", hour |-> 0, rate |-> 0]
    /\ queue = {Event(0, URGENT, 0, "init", GenProc, TRUE)}
    /\ eid = 1
    /\ now = 0
    /\ running = TRUE
    /\ pc = "loop"

\* a run of the engine with a valid configuration: either method, a
\* positive horizon, positive capacities, and the peak window and rate that
\* run_simulation_with_visualization has as defaults
Init ==
    /\ method \in Methods
    /\ time_window \in 1..MaxHorizon
    /\ peak_hours = DefaultPeak
    /\ vehicle_rate = DefaultRate
    /\ \E caps \in [1..NumRoads -> Capacities] :
           roads = [i \in 1..NumRoads |-> Road(caps[i])]
    /\ Started

\* ---------------------------------------------------------- loop iteration
\* One pass of the while body: the loop test holds, the pygame events are
\* polled (quit says whether a QUIT event is among them), then env.step()
\* pops the next event, moves the clock to its time and runs its callback.
Iteration(quit) ==
    /\ pc = "loop"
    /\ LoopCond(running, queue, time_window)
    /\ running' = (IF quit THEN FALSE ELSE running)
    /\ now' = NextEvent(queue).time
    /\ UNCHANGED <<method, time_window, peak_hours, vehicle_rate>>

\* Vehicle(id=len(self.vehicles), weight=..., priority=...) and add_vehicle
\* for a batch of weights ws and priorities ps drawn at time t: the vehicles
\* are appended and each gets a process whose Initialize event is scheduled
\* URGENT at t
NewVehicles(ws, ps, t) ==
    [k \in 1..Len(ws) |->
        [id |-> Len(vehicles) + k - 1, weight |-> ws[k], priority |-> ps[k], born |-> t]]

NewInits(ws, t) ==
    {Event(t, URGENT, eid + k - 1, "init", Len(vehicles) + k - 1, TRUE) : k \in 1..Len(ws)}

\* the half rounded up
HalfRate_RoundsUp(r) == (r + 1) \div 2

\* int(x / 2): float division, then truncation towards zero
HalfRate(r) == IF r >= 0 THEN r \div 2 ELSE 0 - ((0 - r) \div 2)

\* is_peak = peak_hours[0] <= hour <= peak_hours[1];
\* rate = vehicle_rate if is_peak else int(vehicle_rate / 2)
HourRate(hour, peak, r) ==
    IF peak[1] <= hour /\ hour <= peak[2] THEN r ELSE HalfRate(r)

\* np.random.poisson(rate): 0 when the rate is 0, else any count (up to most)
PoissonDraws(rate, most) == IF rate = 0 THEN {0} ELSE 0..most

\* the hour the generator's loop is at when event e resumes it
ResumedHour(e) == IF e.kind = "init" THEN 0 ELSE gen.hour + 1

\* e resumes the generator process
ResumesGenerator(e) == e.proc = GenProc /\ e.kind \in {"init", "timeout"}

\* body of generate_random_traffic for one hour of range(time_window),
\* resumed by event e: the rate, the Poisson draw, the vehicles with weights
\* from Weights and priorities from prios, then yield env.timeout(1); at
\* most `most` vehicles exist afterwards
GeneratorHour(e, prios, most) ==
    LET hour == ResumedHour(e)
        rate == HourRate(hour, peak_hours, vehicle_rate)
    IN  /\ hour < time_window
        /\ \E n \in PoissonDraws(rate, most) :
           \E ws \in [1..n -> Weights] : \E ps \in [1..n -> prios] :
              /\ Len(vehicles) + n <= most
              /\ vehicles' = vehicles \o NewVehicles(ws, ps, e.time)
              /\ vproc' = vproc \o [k \in 1..n |-> [pc |-> "start", road |-> 0]]
              /\ queue' = ((queue \ {e}) \cup NewInits(ws, e.time))
                            \cup {Event(e.time + HoldTime, NORMAL, eid + n, "timeout", GenProc, TRUE)}
              /\ eid' = eid + n + 1
        /\ gen' = [pc |-> "waiting", hour |-> hour, rate |-> rate]

\* generate_random_traffic resumed by event e with range(time_window)
\* exhausted: the generator returns and its Process event is scheduled as
\* succeeded
GeneratorEnd(e) ==
    LET hour == ResumedHour(e)
    IN  /\ ~(hour < time_window)
        /\ gen' = [pc |-> "finished", hour |-> hour, rate |-> gen.rate]
        /\ queue' = (queue \ {e}) \cup {Event(e.time, NORMAL, eid, "end", GenProc, TRUE)}
        /\ eid' = eid + 1
        /\ UNCHANGED <<vehicles, vproc>>

\* env.step() resumes generate_random_traffic (by its Initialize event or
\* its timeout) with an hour left in range(time_window)
GenerateHour(quit) ==
    /\ Iteration(quit)
    /\ ResumesGenerator(NextEvent(queue))
    /\ GeneratorHour(NextEvent(queue), SamplePriorities, MaxVehicles)
    /\ UNCHANGED <<roads, pc>>

\* env.step() resumes generate_random_traffic after its last hour
GenerateEnd(quit) ==
    /\ Iteration(quit)
    /\ ResumesGenerator(NextEvent(queue))
    /\ GeneratorEnd(NextEvent(queue))
    /\ UNCHANGED <<roads, pc>>

\* vehicle_process started by its Initialize event, the policy assigns a
\* Road: load added, then the process suspends on env.timeout(1)
ArriveAssigned(quit) ==
    LET e == NextEvent(queue)
        v == vehicles[e.proc + 1]
        res == VehicleArrive(method, roads, v)
    IN  /\ Iteration(quit)
        /\ e.proc # GenProc /\ e.kind = "init"
        /\ res.road # 0
        /\ roads' = res.roads
        /\ vproc' = [vproc EXCEPT ![e.proc + 1] = [pc |-> "held", road |-> res.road]]
        /\ queue' = (queue \ {e}) \cup {Event(e.time + HoldTime, NORMAL, eid, "timeout", e.proc, TRUE)}
        /\ eid' = eid + 1
        /\ UNCHANGED <<vehicles, gen, pc>>

\* vehicle_process started by its Initialize event, the assignments dict has
\* no entry for the vehicle: assignments[vehicle.id] raises KeyError (or the
\* policy raised ZeroDivisionError), the process fails and its Process event
\* is scheduled with _ok False
ArriveKeyError(quit) ==
    LET e == NextEvent(queue)
        v == vehicles[e.proc + 1]
        res == VehicleArrive(method, roads, v)
    IN  /\ Iteration(quit)
        /\ e.proc # GenProc /\ e.kind = "init"
        /\ res.road = 0
        /\ roads' = res.roads
        /\ vproc' = [vproc EXCEPT ![e.proc + 1] = [pc |-> "failed", road |-> 0]]
        /\ queue' = (queue \ {e}) \cup {Event(e.time, NORMAL, eid, "end", e.proc, FALSE)}
        /\ eid' = eid + 1
        /\ UNCHANGED <<vehicles, gen, pc>>

\* vehicle_process resumed by its timeout: release and history entry, then
\* the generator function returns and its Process event is scheduled
Release(quit) ==
    LET e == NextEvent(queue)
        v == vehicles[e.proc + 1]
    IN  /\ Iteration(quit)
        /\ e.proc # GenProc /\ e.kind = "timeout"
        /\ roads' = VehicleRelease(roads, vproc[e.proc + 1].road, v.weight)
        /\ vproc' = [vproc EXCEPT ![e.proc + 1].pc = "released"]
        /\ queue' = (queue \ {e}) \cup {Event(e.time, NORMAL, eid, "end", e.proc, TRUE)}
        /\ eid' = eid + 1
        /\ UNCHANGED <<vehicles, gen, pc>>

\* env.step() on the Process event of a process that returned normally:
\* nothing waits for it, no callback runs
ProcessEnd(quit) ==
    LET e == NextEvent(queue)
    IN  /\ Iteration(quit)
        /\ e.kind = "end" /\ e.ok
        /\ queue' = queue \ {e}
        /\ UNCHANGED <<roads, vehicles, vproc, gen, eid, pc>>

\* env.step() on the Process event of a failed process: the event is not
\* defused, so step() re-raises the exception, which nothing in
\* run_simulation_with_visualization catches
ProcessFail(quit) ==
    LET e == NextEvent(queue)
    IN  /\ Iteration(quit)
        /\ e.kind = "end" /\ ~e.ok
        /\ queue' = queue \ {e}
        /\ pc' = "crashed"
        /\ UNCHANGED <<roads, vehicles, vproc, gen, eid>>

\* the loop test fails: pygame.quit() and the reports, which only read
Finish ==
    /\ pc = "loop"
    /\ ~LoopCond(running, queue, time_window)
    /\ pc' = "done"
    /\ UNCHANGED <<method, time_window, peak_hours, vehicle_rate, roads, vehicles, vproc, gen, queue, eid, now, running>>

Next ==
    \/ \E quit \in BOOLEAN : GenerateHour(quit)
    \/ \E quit \in BOOLEAN : GenerateEnd(quit)
    \/ \E quit \in BOOLEAN : ArriveAssigned(quit)
    \/ \E quit \in BOOLEAN : ArriveKeyError(quit)
    \/ \E quit \in BOOLEAN : Release(quit)
    \/ \E quit \in BOOLEAN : ProcessEnd(quit)
    \/ \E quit \in BOOLEAN : ProcessFail(quit)
    \/ Finish

Spec == Init /\ [][Next]_vars

\* a peak window with start > end
MalformedPeak == <<1, 0>>

\* start_simulation called with whatever the dialog delivers: the horizon
\* and the capacities may be 0 and the peak window malformed, nothing
\* between create_gui and the loop looks at them
ConfigInit ==
    /\ method \in Methods
    /\ time_window \in 0..MaxHorizon
    /\ peak_hours \in {DefaultPeak, MalformedPeak}
    /\ vehicle_rate = DefaultRate
    /\ \E caps \in [1..NumRoads -> Capacities \cup {0}] :
           roads = [i \in 1..NumRoads |-> Road(caps[i])]
    /\ Started

ConfigSpec == ConfigInit /\ [][Next]_vars

\* generate_random_traffic on its own: a valid horizon, peak window and
\* base rate; the Roads and the method are not read by the generator
GenInit ==
    /\ method = "1"
    /\ time_window \in 1..MaxHorizon
    /\ peak_hours \in PeakWindows
    /\ vehicle_rate \in Rates
    /\ roads = [i \in 1..NumRoads |-> Road(MaxCap)]
    /\ Started

\* the generator resumed for an hour of its loop, the vehicle processes it
\* starts left waiting in the queue
GenOnlyHour ==
    \E e \in queue :
        /\ ResumesGenerator(e)
        /\ GeneratorHour(e, Priorities, MaxGenVehicles)
        /\ now' = e.time
        /\ UNCHANGED <<method, time_window, peak_hours, vehicle_rate, roads, running, pc>>

\* the generator resumed after its last hour
GenOnlyEnd ==
    \E e \in queue :
        /\ ResumesGenerator(e)
        /\ GeneratorEnd(e)
        /\ now' = e.time
        /\ UNCHANGED <<method, time_window, peak_hours, vehicle_rate, roads, running, pc>>

GenNext == GenOnlyHour \/ GenOnlyEnd

GenSpec == GenInit /\ [][GenNext]_vars

\* One call of a policy function on any Road state: Roads with loads
\* 0..MaxLoad (the greedy policy and the second addition of vehicle_process
\* take a load above the capacity) and a single vehicle of any weight
PolicyInit ==
    /\ method \in Methods
    /\ time_window = 1
    /\ peak_hours = DefaultPeak
    /\ vehicle_rate = DefaultRate
    /\ \E caps \in [1..NumRoads -> Capacities], loads \in [1..NumRoads -> 0..MaxLoad] :
          roads = [i \in 1..NumRoads |-> [Road(caps[i]) EXCEPT !.current_load = loads[i]]]
    /\ \E w \in Weights :
          vehicles = <<[id |-> 0, weight |-> w, priority |-> 1, born |-> 0]>>
    /\ vproc = <<[pc |-> "start", road |-> 0]>>
    /\ gen = [pc |-> "finished", hour |-> 1, rate |-> 0]
    /\ queue = {}
    /\ eid = 0
    /\ now = 0
    /\ running = TRUE
    /\ pc = "loop"

\* the call of vehicle_process line 107 or 109 alone; the vehicle's entry of
\* the returned dict is kept in vproc (road 0: no entry)
PolicyCall(m) ==
    LET v == vehicles[1]
        res == Policy(m, roads, v)
    IN  /\ method = m
        /\ vproc[1].pc = "start"
        /\ roads' = res.roads
        /\ vproc' = [vproc EXCEPT ![1] =
                        IF v.id \in DOMAIN res.assignments
                        THEN [pc |-> "assigned", road |-> res.assignments[v.id]]
                        ELSE [pc |-> "unassigned", road |-> 0]]
        /\ UNCHANGED <<method, time_window, peak_hours, vehicle_rate, vehicles,
                       gen, queue, eid, now, running, pc>>

CallOptimize == PolicyCall("1")

CallBalance == PolicyCall("2")

PolicyNext == CallOptimize \/ CallBalance

PolicySpec == PolicyInit /\ [][PolicyNext]_vars

\* the run when the display is never closed: no iteration finds a QUIT event
NextUnstopped ==
    \/ GenerateHour(FALSE)
    \/ GenerateEnd(FALSE)
    \/ ArriveAssigned(FALSE)
    \/ ArriveKeyError(FALSE)
    \/ Release(FALSE)
    \/ ProcessEnd(FALSE)
    \/ ProcessFail(FALSE)
    \/ Finish

\* the unstopped run executed to its end: the while loop of
\* run_simulation_with_visualization never blocks (clock.tick(30) only
\* delays), so an iteration that is possible is eventually taken
FairSpec == Init /\ [][NextUnstopped]_vars /\ WF_vars(NextUnstopped)

\* ----------------------------------------------------------------- claims
\* vehicles whose process holds, or has released, Road i
HeldOn(i) == {k \in DOMAIN vproc : vproc[k].pc = "held" /\ vproc[k].road = i}
ReleasedOn(i) == {k \in DOMAIN vproc : vproc[k].pc = "released" /\ vproc[k].road = i}
AssignedTo(i) == {k \in DOMAIN vproc : vproc[k].road = i}

\* vehicle k runs the first part of vehicle_process in this step
Arrives(k) == vproc[k].pc = "start" /\ vproc'[k].pc # "start"

\* vehicle k goes Pending -> Assigned in this step
GetsAssigned(k) == vproc[k].pc = "start" /\ vproc'[k].pc = "held"

\* vehicle k goes Held -> Released in this step
GetsReleased(k) == vproc[k].pc = "held" /\ vproc'[k].pc = "released"

\* no Road has room for weight w
NoRoom(w) == \A i \in DOMAIN roads : roads[i].current_load + w > roads[i].capacity

\* C1: under Policy B every Road has current_load <= capacity in every
\* reachable state.
C1_LoadWithinCapacity ==
    method # "1" => \A i \in DOMAIN roads : roads[i].current_load <= roads[i].capacity

\* C2: the Pending -> Assigned transition of a vehicle of weight w adds
\* exactly w to the chosen Road's current_load and leaves every other
\* Road's current_load and every history unchanged.
C2_AssignAddsWeightOnce ==
    [][\A k \in DOMAIN vproc : GetsAssigned(k) =>
          \A i \in DOMAIN roads :
              /\ roads'[i].history = roads[i].history
              /\ roads'[i].current_load =
                     IF i = vproc'[k].road
                     THEN roads[i].current_load + vehicles[k].weight
                     ELSE roads[i].current_load]_vars

\* C3: in a state where no vehicle is Held, every Road's current_load is 0.
C3_IdleRoadsAreEmpty ==
    (\A k \in DOMAIN vproc : vproc[k].pc # "held")
        => \A i \in DOMAIN roads : roads[i].current_load = 0

\* C4: under Policy B a vehicle that fits on no Road does not abort the
\* run: the loop is never left by an exception.
C4_DropDoesNotAbortRun ==
    method # "1" => pc # "crashed"

\* C5: under Policy B a vehicle that finds no Road with room gets no entry
\* in the assignment mapping, changes no Road at its arrival, and never
\* becomes Held or Released: its process stays failed, holds no Road and
\* has no event left that could touch a Road.
C5_DroppedVehicleHasNoEffect ==
    /\ [][\A k \in DOMAIN vproc :
            /\ (method # "1" /\ Arrives(k) /\ NoRoom(vehicles[k].weight)) =>
                  /\ vehicles[k].id \notin DOMAIN balance_traffic_flow(roads, vehicles[k]).assignments
                  /\ roads' = roads
                  /\ vproc'[k] = [pc |-> "failed", road |-> 0]
            /\ vproc[k].pc = "failed" => vproc'[k] = vproc[k]]_vars
    /\ [](\A k \in DOMAIN vproc : vproc[k].pc = "failed" =>
            /\ vproc[k].road = 0
            /\ \A e \in queue : e.proc = vehicles[k].id => e.kind = "end")

\* a vehicle has been dropped by Policy B while another one is held
C5_Witness ==
    /\ method # "1"
    /\ \E k \in DOMAIN vproc : vproc[k].pc = "failed"
    /\ \E k \in DOMAIN vproc : vproc[k].pc = "held"

\* C6: Policy A always admits: every arriving vehicle is assigned to a Road
\* whatever the loads, the Road's load grows by at least the vehicle's
\* weight (no clamping at capacity), and no vehicle is ever left unassigned.
C6_PolicyAAlwaysAdmits ==
    /\ [][method = "1" => \A k \in DOMAIN vproc : Arrives(k) =>
            /\ vproc'[k].pc = "held"
            /\ vproc'[k].road \in DOMAIN roads
            /\ vehicles[k].id \in DOMAIN optimize_traffic_flow(roads, vehicles[k]).assignments
            /\ roads'[vproc'[k].road].current_load
                   >= roads[vproc'[k].road].current_load + vehicles[k].weight]_vars
    /\ [](method = "1" => \A k \in DOMAIN vproc : vproc[k].pc # "failed")

\* a Road of capacity 1 loaded above its capacity by weight-3 vehicles, with
\* a recorded history ratio above 1.0
C6_Witness ==
    /\ method = "1"
    /\ \E i \in DOMAIN roads :
          /\ roads[i].capacity = 1
          /\ roads[i].current_load > roads[i].capacity
          /\ \E n \in DOMAIN roads[i].history : RatioAboveOne(roads[i].history[n])
          /\ \E k \in AssignedTo(i) : vehicles[k].weight = 3

\* s is a prefix of t
IsPrefix(s, t) == Len(s) <= Len(t) /\ \A n \in 1..Len(s) : s[n] = t[n]

\* C7: for every Road, len(history) is the number of vehicles that have
\* completed hold and release against it, never more than the number of
\* vehicles assigned to it, and history only grows by appending.
C7_HistoryCountsReleases ==
    /\ [](\A i \in DOMAIN roads :
            /\ Len(roads[i].history) = Cardinality(ReleasedOn(i))
            /\ Len(roads[i].history) <= Cardinality(AssignedTo(i)))
    /\ [][\A i \in DOMAIN roads : IsPrefix(roads[i].history, roads'[i].history)]_vars

\* one vehicle released from a Road while a second one is still held there
C7_Witness ==
    \E i \in DOMAIN roads :
        /\ Len(roads[i].history) = 1
        /\ Cardinality(AssignedTo(i)) = 2
        /\ HeldOn(i) # {}

\* every vehicle assigned to a Road has left its history entry there
AllReleased == \A i \in DOMAIN roads : Len(roads[i].history) = Cardinality(AssignedTo(i))

\* C8: under Policy A a run that is not stopped by the external signal
\* terminates, and when it has terminated every Road's len(history) is the
\* number of vehicles assigned to it and every generated vehicle has been
\* released, the vehicles of hour H-1 included.
C8_PolicyARunCompletes ==
    /\ [](method = "1" => <>(pc = "done"))
    /\ [](method = "1" /\ pc = "done" /\ running =>
            /\ AllReleased
            /\ \A k \in DOMAIN vproc : vproc[k].pc = "released")

\* a finished, unstopped Policy A run whose last-hour vehicle was released
\* at clock value H
C8_Witness ==
    /\ method = "1" /\ pc = "done" /\ running
    /\ now = time_window
    /\ \E k \in DOMAIN vproc :
          /\ vehicles[k].born = time_window - 1
          /\ vproc[k].pc = "released"

\* C9: vehicles run their policy call in the order they were created
\* (ascending id), and every vehicle of hour h has run its own before any
\* vehicle of a later hour does.
C9_AssignmentFollowsGeneration ==
    \A j, k \in DOMAIN vproc :
        /\ vehicles[k].id = k - 1
        /\ (j < k => vehicles[j].born <= vehicles[k].born)
        /\ ((j < k \/ vehicles[j].born < vehicles[k].born) /\ vproc[k].pc # "start")
               => vproc[j].pc # "start"

\* two vehicles of one hour and one of the next hour have all run their
\* policy call
C9_Witness ==
    \E a, b, c \in DOMAIN vproc :
        /\ a < b /\ vehicles[a].born = vehicles[b].born
        /\ vehicles[c].born = vehicles[a].born + 1
        /\ vproc[a].pc # "start" /\ vproc[b].pc # "start" /\ vproc[c].pc # "start"

\* some Road loses load or gains a history entry in this step
ReleaseHappens ==
    \E i \in DOMAIN roads :
        \/ roads'[i].current_load < roads[i].current_load
        \/ roads'[i].history # roads[i].history

\* C10 as stated: from the moment the stop signal is received (running set
\* to False by the event poll) no Road's current_load is decremented and no
\* history entry is appended.
C10_NoReleaseAfterSignal ==
    [][~running' => ~ReleaseHappens]_vars

\* C10 amended: once the loop iteration that received the stop signal has
\* ended, no Road and no vehicle process changes any more; the vehicles
\* still Held stay Held.
C10_NoReleaseAfterStoppedIteration ==
    [][~running => (roads' = roads /\ vproc' = vproc /\ queue' = queue)]_vars

\* a stopped run has ended with a vehicle still Held and its load on a Road
C10_Witness ==
    /\ ~running /\ pc = "done"
    /\ \E k \in DOMAIN vproc :
          /\ vproc[k].pc = "held"
          /\ roads[vproc[k].road].current_load >= vehicles[k].weight

\* the configuration has a non-positive capacity, a non-positive horizon or
\* a peak window with start > end
InvalidConfig ==
    \/ time_window <= 0
    \/ \E i \in DOMAIN roads : roads[i].capacity <= 0
    \/ peak_hours[1] > peak_hours[2]

\* C11: a run configuration with a non-positive capacity, a non-positive
\* horizon or a malformed peak window is rejected before the run starts: no
\* vehicle is generated, no engine step is taken and no error shows up in
\* the middle of the run.
C11_InvalidConfigRejected ==
    InvalidConfig =>
        /\ vehicles = <<>>
        /\ queue = {Event(0, URGENT, 0, "init", GenProc, TRUE)}
        /\ eid = 1
        /\ pc # "crashed"

\* The histories as a function of the configuration and the random draws
\* alone (the draws are the weights and creation hours kept in vehicles):
\* hour by hour, the vehicles created in the hour arrive in id order, then
\* the vehicles of the hour before are released in id order; a vehicle
\* without a Road ends the run after that hour.  st is [roads, road, failed],
\* road being the Road of each vehicle (0 for none).
RECURSIVE ReplayArrivals(_, _)
ReplayArrivals(st, ks) ==
    IF ks = <<>> THEN st
    ELSE LET k == Head(ks)
             res == VehicleArrive(method, st.roads, vehicles[k])
         IN  ReplayArrivals([roads |-> res.roads,
                             road |-> [st.road EXCEPT ![k] = res.road],
                             failed |-> st.failed \/ res.road = 0],
                            Tail(ks))

RECURSIVE ReplayReleases(_, _)
ReplayReleases(st, ks) ==
    IF ks = <<>> THEN st
    ELSE LET k == Head(ks)
         IN  ReplayReleases([st EXCEPT !.roads =
                                VehicleRelease(st.roads, st.road[k], vehicles[k].weight)],
                            Tail(ks))

\* the indices, ascending, of the vehicles created at hour h
BornAt(h) == SelectSeq([k \in 1..Len(vehicles) |-> k], LAMBDA k : vehicles[k].born = h)

RECURSIVE ReplayFrom(_, _)
ReplayFrom(st, h) ==
    LET arrived == ReplayArrivals(st, BornAt(h))
        released == ReplayReleases(arrived, BornAt(h - 1))
    IN  IF released.failed \/ h >= time_window THEN released
        ELSE ReplayFrom(released, h + 1)

Replay ==
    ReplayFrom([roads |-> [i \in DOMAIN roads |-> Road(roads[i].capacity)],
                road |-> [k \in 1..Len(vehicles) |-> 0],
                failed |-> FALSE], 0)

\* the run has ended, by the loop test or by an exception, without a stop
\* signal
EndedUnstopped == running /\ pc \in {"done", "crashed"}

\* C12: the engine is deterministic given its random draws: when a run that
\* was not stopped early has ended, every Road's history (and load) is the
\* one value determined by the configuration, the per-hour arrivals and the
\* vehicle weights, under Policy A and under Policy B; two runs with the
\* same draws therefore end with identical histories.
C12_HistoryDeterminedByDraws ==
    EndedUnstopped => roads = Replay.roads

\* an unstopped run has ended with three vehicles released, two of them
\* created in the same hour
C12_Witness ==
    /\ EndedUnstopped
    /\ \E a, b, c \in DOMAIN vproc :
          /\ a < b /\ vehicles[a].born = vehicles[b].born
          /\ vehicles[c].born # vehicles[a].born
          /\ vproc[a].pc = "released" /\ vproc[b].pc = "released" /\ vproc[c].pc = "released"
    /\ \A i \in DOMAIN roads : roads[i].history # <<>>

\* floor(r / 2) for r >= 0
FloorHalf(r) == CHOOSE q \in 0..r : 2 * q <= r /\ r < 2 * q + 2

\* the rate section 4.1 gives hour h
ExpectedRate(h) ==
    IF peak_hours[1] <= h /\ h <= peak_hours[2] THEN vehicle_rate ELSE FloorHalf(vehicle_rate)

\* C13: generate_random_traffic produces one batch for each hour 0..H-1, in
\* increasing hour order and for no other hour; the rate it uses for hour h
\* is r inside the peak window and floor(r/2) outside; every vehicle has a
\* weight in {1,2,3} and a priority in {1,..,5}.
C13_GeneratorBatches ==
    /\ [](/\ \A k \in DOMAIN vehicles :
                /\ vehicles[k].weight \in {1, 2, 3}
                /\ vehicles[k].priority \in 1..5
                /\ vehicles[k].born \in 0..(time_window - 1)
                /\ vehicles[k].born <= gen.hour
          /\ gen.pc = "waiting" =>
                /\ gen.hour \in 0..(time_window - 1)
                /\ gen.hour = now
                /\ gen.rate = ExpectedRate(gen.hour)
          /\ gen.pc = "finished" => gen.hour = time_window)
    /\ [][gen' # gen =>
            /\ gen'.hour = (IF gen.pc = "start" THEN 0 ELSE gen.hour + 1)
            /\ gen'.pc = (IF gen'.hour < time_window THEN "waiting" ELSE "finished")
            /\ Len(vehicles') >= Len(vehicles)
            /\ \A k \in DOMAIN vehicles' :
                  IF k <= Len(vehicles) THEN vehicles'[k] = vehicles[k]
                  ELSE vehicles'[k].born = gen'.hour /\ gen'.pc = "waiting"]_vars

\* the generator is at an off-peak hour 1 with rate floor(3/2) = 1 and has
\* produced a vehicle of weight 3 and priority 5 in that hour
C13_Witness ==
    /\ gen.pc = "waiting" /\ gen.hour = 1
    /\ vehicle_rate = 3 /\ gen.rate = 1
    /\ \E k \in DOMAIN vehicles :
          /\ vehicles[k].born = 1
          /\ vehicles[k].weight = 3
          /\ vehicles[k].priority = 5

\* the Roads that differ between the two states of a step
ChangedRoads == {i \in DOMAIN roads : roads'[i] # roads[i]}

\* C14: an assigned vehicle is assigned to exactly one Road, at the clock
\* value of its arrival; it is released at clock value arrivalTick + 1
\* whatever its weight, against the Road its load was added to; it is never
\* released twice and its Road never changes.
C14_OneRoadOneTimeUnit ==
    [][\A k \in DOMAIN vproc :
          /\ GetsAssigned(k) =>
                /\ now' = vehicles[k].born
                /\ vproc'[k].road \in DOMAIN roads
                /\ ChangedRoads = {vproc'[k].road}
                /\ roads'[vproc'[k].road].current_load > roads[vproc'[k].road].current_load
          /\ vproc[k].pc = "held" =>
                /\ vproc'[k].road = vproc[k].road
                /\ vproc'[k].pc \in {"held", "released"}
                /\ now' \in {vehicles[k].born, vehicles[k].born + 1}
          /\ GetsReleased(k) =>
                /\ now' = vehicles[k].born + 1
                /\ ChangedRoads = {vproc[k].road}
                /\ Len(roads'[vproc[k].road].history) = Len(roads[vproc[k].road].history) + 1
          /\ vproc[k].pc = "released" => vproc'[k] = vproc[k]]_vars

\* vehicles of weight 1 and of weight 3 that arrived in the same hour have
\* both been released, one hour later, against the second Road
C14_Witness ==
    \E j, k \in DOMAIN vproc :
        /\ vehicles[j].weight = 1 /\ vehicles[k].weight = 3
        /\ vehicles[j].born = vehicles[k].born
        /\ vproc[j].pc = "released" /\ vproc[k].pc = "released"
        /\ vproc[k].road = 2
        /\ now = vehicles[k].born + 1
        /\ Len(roads[2].history) >= 1

\* the policy function is called for the vehicle in this step
PolicyCalled == vproc[1].pc = "start" /\ vproc'[1].pc # "start"

\* Road i's ratio is at most / below Road j's, before the call
RatioAtMost(i, j) ==
    roads[i].current_load * roads[j].capacity <= roads[j].current_load * roads[i].capacity

RatioBelow(i, j) ==
    roads[i].current_load * roads[j].capacity < roads[j].current_load * roads[i].capacity

\* C15: for every Road state optimize_traffic_flow assigns the vehicle to a
\* Road whose ratio current_load/capacity is minimal over all Roads at the
\* time of the choice, the first such Road of the list when several share
\* the minimum.
C15_OptimizePicksFirstMinimum ==
    [][(method = "1" /\ PolicyCalled) =>
          /\ vproc'[1].pc = "assigned"
          /\ vproc'[1].road \in DOMAIN roads
          /\ \A j \in DOMAIN roads : RatioAtMost(vproc'[1].road, j)
          /\ \A j \in DOMAIN roads : j < vproc'[1].road => RatioBelow(vproc'[1].road, j)]_vars

\* the greedy policy chose the first Road although the second, of another
\* capacity, had the same non-zero ratio
C15_Witness ==
    /\ method = "1"
    /\ vproc[1].pc = "assigned" /\ vproc[1].road = 1
    /\ roads[1].capacity # roads[2].capacity
    /\ roads[2].current_load > 0
    /\ (roads[1].current_load - vehicles[1].weight) * roads[2].capacity
          = roads[2].current_load * roads[1].capacity

\* the Roads with room for weight w, before the call
WithRoom(w) == {i \in DOMAIN roads : roads[i].current_load + w <= roads[i].capacity}

\* C16: for every Road state balance_traffic_flow assigns the vehicle to the
\* first Road, in ascending order of ratio with equal ratios in list order,
\* that has room for its weight: the chosen Road has the lowest ratio among
\* the Roads with room, and the vehicle is left unassigned only when no Road
\* has room.
C16_BalancePicksFirstFit ==
    [][(method = "2" /\ PolicyCalled) =>
          LET room == WithRoom(vehicles[1].weight)
              r == vproc'[1].road
          IN  /\ (vproc'[1].pc = "unassigned") <=> (room = {})
              /\ vproc'[1].pc = "unassigned" => r = 0 /\ roads' = roads
              /\ vproc'[1].pc = "assigned" =>
                    /\ r \in room
                    /\ \A j \in room : RatioAtMost(r, j)
                    /\ \A j \in room : j < r => RatioBelow(r, j)]_vars

\* first fit chose the second Road, of the lower ratio, although the first
\* Road had room as well
C16_Witness ==
    /\ method = "2"
    /\ vproc[1].pc = "assigned" /\ vproc[1].road = 2
    /\ roads[1].current_load + vehicles[1].weight <= roads[1].capacity
    /\ roads[1].current_load > 0
    /\ (roads[2].current_load - vehicles[1].weight) * roads[1].capacity
          < roads[1].current_load * roads[2].capacity

\* C17: the Held -> Released transition of a vehicle of weight w on Road R
\* sets R.current_load to max(0, R.current_load - w), appends to R.history
\* exactly one entry, the new current_load over the capacity, and changes
\* nothing on any other Road.
C17_ReleaseDecrementsThenRecords ==
    [][\A k \in DOMAIN vproc : GetsReleased(k) =>
          LET R == vproc[k].road
              w == vehicles[k].weight
              after == IF roads[R].current_load - w > 0 THEN roads[R].current_load - w ELSE 0
          IN  /\ roads'[R].current_load = after
              /\ roads'[R].capacity = roads[R].capacity
              /\ Len(roads'[R].history) = Len(roads[R].history) + 1
              /\ SubSeq(roads'[R].history, 1, Len(roads[R].history)) = roads[R].history
              /\ roads'[R].history[Len(roads'[R].history)] = <<after, roads[R].capacity>>
              /\ \A i \in DOMAIN roads : i # R => roads'[i] = roads[i]]_vars

\* a release left load on its Road and recorded it as the Road's latest
\* history entry, while the other Road holds a vehicle and has no entry
C17_Witness ==
    \E R, O \in DOMAIN roads :
        /\ R # O
        /\ ReleasedOn(R) # {} /\ HeldOn(R) # {}
        /\ roads[R].current_load > 0
        /\ Len(roads[R].history) = 1
        /\ roads[R].history[1] = <<roads[R].current_load, roads[R].capacity>>
        /\ HeldOn(O) # {} /\ roads[O].history = <<>>

\* one iteration of the outer loop runs in this step: env.step() takes an
\* event off the queue
LoopIteration == pc = "loop" /\ queue' # queue

\* C18: simulated time advances by exactly one unit on every iteration of
\* the outer loop.
C18_TimeAdvancesEveryIteration ==
    [][LoopIteration => now' = now + 1]_vars

\* C18, as the code has it: an iteration processes exactly one event, the
\* earliest of the queue, and the clock moves to that event's time, which is
\* the current time or one unit later.
C18_OneEventPerIteration ==
    [][LoopIteration =>
          /\ NextEvent(queue) \notin queue'
          /\ \A e \in queue \ {NextEvent(queue)} : e \in queue'
          /\ now' = NextEvent(queue).time
          /\ now' \in {now, now + 1}]_vars

\* the clock reads 1 and two vehicles of hour 1 have already had their
\* arrival processed, in two iterations that left the clock where it was
C18_Witness ==
    /\ now = 1
    /\ \E j, k \in DOMAIN vproc :
          /\ j # k
          /\ vehicles[j].born = 1 /\ vehicles[k].born = 1
          /\ vproc[j].pc = "held" /\ vproc[k].pc = "held"

\* C19: at every hour h >= 1 the generator has produced the batch of hour h
\* and every vehicle of that batch has run its policy call before any
\* vehicle that arrived at hour h - 1 is released, so no policy call of hour
\* h sees a Road already relieved of a vehicle of hour h - 1.
C19_ArrivalsBeforeReleases ==
    /\ [](\A j \in DOMAIN vproc : vproc[j].pc = "released" =>
            /\ gen.hour >= vehicles[j].born + 1
            /\ \A k \in DOMAIN vproc :
                  vehicles[k].born = vehicles[j].born + 1 => vproc[k].pc # "start")
    /\ [][\A k \in DOMAIN vproc : Arrives(k) =>
            \A j \in DOMAIN vproc :
                vehicles[j].born + 1 = vehicles[k].born => vproc[j].pc \in {"held", "failed"}]_vars

\* a vehicle of hour 0 has been released at clock value 1 after two vehicles
\* of hour 1 were assigned
C19_Witness ==
    /\ now = 1
    /\ \E j, k, l \in DOMAIN vproc :
          /\ k # l
          /\ vehicles[j].born = 0 /\ vproc[j].pc = "released"
          /\ vehicles[k].born = 1 /\ vproc[k].pc = "held"
          /\ vehicles[l].born = 1 /\ vproc[l].pc = "held"

\* C20: at every Held -> Released transition of a vehicle of weight w on
\* Road R, R.current_load >= w just before the decrement, so the floor at 0
\* never takes effect, under both policies.
C20_FloorNeverTakesEffect ==
    [][\A k \in DOMAIN vproc : GetsReleased(k) =>
          /\ roads[vproc[k].road].current_load >= vehicles[k].weight
          /\ roads'[vproc[k].road].current_load
                = roads[vproc[k].road].current_load - vehicles[k].weight]_vars

\* under the capacity-checked policy two vehicles shared a Road and one of
\* them has been released from it, the Road's first release
C20_Witness ==
    /\ method = "2"
    /\ \E j, k \in DOMAIN vproc :
          /\ j # k
          /\ vproc[j].road = vproc[k].road
          /\ vproc[j].pc = "held" /\ vproc[k].pc = "released"
          /\ Len(roads[vproc[k].road].history) = 1

====
